---- MODULE Spec2Model ----
(***************************************************************************)
(* A model of the no-deadlocks library: the lock registry                  *)
(* (LockRepresentation / LockManagerInner), the wait-for graph and its     *)
(* cycle finder, and the instrumented Mutex / RwLock acquisition loops and *)
(* guards.                                                                 *)
(*                                                                         *)
(* Every operation of the library runs between LockManager::write_lock and *)
(* the drop of the LockManagerWriteGuard, so one critical section is one   *)
(* action.  A panic raised in analyse releases the manager's write lock    *)
(* first and drops the guards of the panicking thread afterwards, one      *)
(* critical section per guard: these are separate actions.                 *)
(***************************************************************************)
EXTENDS Integers, Sequences, FiniteSets, TLC

\* The threads of the program (std::thread::ThreadId) and the lock keys.
Threads == {1, 2, 3}
Locks == {1, 2}

\* The threads that run in the unrestricted program Spec; the third thread
\* only runs in the programs of the end-to-end scenarios.
Clients == {1, 2}

\* How many holder records a lock entry may have at most: the client stops
\* calling read()/try_read() when the entry would grow beyond it.
MaxReaders == 2

\* No lock / no thread: keys and thread ids start at 1.
NoLock == 0
NoThread == 0

VARIABLES
    kind,      \* kind[l]: which wrapper owns key l, "Mutex" or "RwLock"
    locks,     \* LockManagerInner.locks: key -> LockRepresentation
    poisoned,  \* the wrapper's AtomicBool poisoned, per lock
    pc,        \* per thread: "idle", "lock" (inside a blocking acquisition),
               \* "panicking" (unwinding), "dead" (gone after a panic),
               \* "returning" (leaving its closure), "done"
    target,    \* per thread: the lock of the pending blocking acquisition
    mode,      \* per thread: "Read" or "Write", the mode of that acquisition
    guards,    \* guards[t][l][m]: live guards of lock l, mode m, owned by t
    report,    \* per thread: the dependence cycle its deadlock panic reported
    ret,       \* what the acquisition call that returned in the last step
               \* returned, "None" when the last step returned from none
    ran,       \* the thread that ran analyse in the last step, else NoThread
    found,     \* what find_loop returned to that analyse, <<>> for None
    tainted,   \* per lock: a guard of it was dropped by a panicking thread
    subs,      \* the requests map of one LockRepresentation with the capture
               \* sites of its entries, the map before the last subscribe
               \* call and the thread, mode and capture site of that call
    registry,  \* one LockManagerInner with its wrappers: next_key, the locks
               \* map, the keys of the live Mutex/RwLock wrappers, the keys
               \* that create_lock returned, per key the remove_lock calls
               \* of its wrapper, and the last operation, its key and the
               \* locks map before it
    run,       \* per thread the operation on the manager it is in ("none",
               \* "create_lock", "remove_lock", "try", "lock", "drop") and
               \* its position in it: "idle", "write_lock" (spinning in
               \* write_lock), "section" (it holds the write guard),
               \* "yield" (inside yield_now), "unwinding" (the panic of
               \* analyse unwinds)
    cv,        \* a Condvar with its application Mutex: per thread the
               \* position in Condvar::wait or in the notifying code, the
               \* owner of the application mutex, the owner of the native
               \* mutex, the threads parked in the native condvar, how
               \* many notifications were sent, whether the notifier took
               \* the application mutex after the waiter had released it
               \* and whether it has notified after that
    manager,   \* the spinlock of the manager: LockManagerInner.lock and,
               \* per thread, its position in read_lock / write_lock, the
               \* local variable state of read_lock and its live
               \* LockManagerReadGuards and LockManagerWriteGuards
    global,    \* GLOBAL_MANAGER and the threads inside get_global_manager:
               \* the pointer, per thread its position, its locals manager
               \* and new_manager and the handles it was returned, and the
               \* managers that are allocated or were freed
    search     \* a Graph under construction: its nodes, how many calls of
               \* add_edge_and_nodes were added to it, whether find_loop
               \* was called on it and what it returned, <<>> for None

vars == <<kind, locks, poisoned, pc, target, mode, guards, report, ret, ran, found, tainted,
          manager, global, search, subs, registry, run, cv>>

\* The state that the operations on the registry entries leave alone.
untouched == <<manager, global, search, subs, registry, run, cv>>

Modes == {"Read", "Write"}

----------------------------------------------------------------------------
\* Small helpers for maps (HashMap / VecMap) and vectors.

Range(s) == {s[i] : i \in DOMAIN s}

MapPut(f, k, v) == [x \in DOMAIN f \cup {k} |-> IF x = k THEN v ELSE f[x]]

MapRemove(f, k) == [x \in DOMAIN f \ {k} |-> f[x]]

EmptyMap == [x \in {} |-> 0]

\* Vec::iter().position(|i| i == id): 0 when there is none, else 1-based.
Position(s, x) ==
    IF x \in Range(s) THEN CHOOSE i \in DOMAIN s : s[i] = x /\ \A j \in 1..(i-1) : s[j] # x
    ELSE 0

\* Vec::swap_remove(index): the last element takes the place of the removed one.
SwapRemove(s, i) ==
    LET n == Len(s)
    IN  IF i = n THEN SubSeq(s, 1, n - 1)
        ELSE [j \in 1..(n - 1) |-> IF j = i THEN s[n] ELSE s[j]]

----------------------------------------------------------------------------
\* LockRepresentation

NewRepresentation == [write_locked |-> FALSE, readers |-> <<>>, requests |-> EmptyMap]

\* An unsubscribe that leaves the request in place.
unsubscribe_forgets(rep, id) == rep

unsubscribe(rep, id) == [rep EXCEPT !.requests = MapRemove(@, id)]

\* A try_write_lock that lets a second holder in.
try_write_lock_one_holder(rep, id) ==
    IF Len(rep.readers) <= 1
    THEN [ok |-> TRUE,
          rep |-> unsubscribe([rep EXCEPT !.write_locked = TRUE,
                                          !.readers = Append(@, id)], id)]
    ELSE [ok |-> FALSE, rep |-> rep]

try_write_lock(rep, id) ==
    IF rep.readers = <<>>
    THEN [ok |-> TRUE,
          rep |-> unsubscribe([rep EXCEPT !.write_locked = TRUE,
                                          !.readers = Append(@, id)], id)]
    ELSE [ok |-> FALSE, rep |-> rep]

\* A try_read_lock that does not look at write_locked.
try_read_lock_unchecked(rep, id) ==
    [ok |-> TRUE, rep |-> unsubscribe([rep EXCEPT !.readers = Append(@, id)], id)]

try_read_lock(rep, id) ==
    IF rep.write_locked
    THEN [ok |-> FALSE, rep |-> rep]
    ELSE [ok |-> TRUE,
          rep |-> unsubscribe([rep EXCEPT !.readers = Append(@, id)], id)]

\* A subscribe_write that records nothing.
subscribe_write_forgets(rep, id) == rep

subscribe_write(rep, id) ==
    IF id \in DOMAIN rep.requests /\ rep.requests[id] = "Write"
    THEN rep
    ELSE [rep EXCEPT !.requests = MapPut(@, id, "Write")]

subscribe_read(rep, id) ==
    IF id \in DOMAIN rep.requests /\ rep.requests[id] = "Read"
    THEN rep
    ELSE [rep EXCEPT !.requests = MapPut(@, id, "Read")]

\* An unlock that leaves the holder record in place.
unlock_keeps_holder(rep, id) == [rep EXCEPT !.write_locked = FALSE]

unlock(rep, id) ==
    LET index == Position(rep.readers, id)
    IN  [rep EXCEPT !.write_locked = FALSE,
                    !.readers = IF index # 0 THEN SwapRemove(@, index) ELSE @]

----------------------------------------------------------------------------
\* graphs.rs: Graph<DependencyNode>

ThreadNode(t) == <<"Thread", t>>
LockNode(l) == <<"Lock", l>>

add_edge_and_nodes(g, from, to) ==
    LET g1 == IF to \notin DOMAIN g THEN MapPut(g, to, {}) ELSE g
    IN  IF from \notin DOMAIN g1
        THEN MapPut(g1, from, {to})
        ELSE [g1 EXCEPT ![from] = @ \cup {to}]

\* The iteration order of a HashMap is unspecified and differs from one map
\* to the next, so the search yields a set: every history the backtracker can
\* return for some order of the keys.  The empty set stands for None.
RECURSIVE loop_backtracker(_, _)
\* A backtracker that returns the whole history, the path that led to the
\* cycle included.
loop_backtracker_keeps_path(g, history) ==
    LET current_node == history[Len(history)]
    IN  UNION { IF node \in Range(history)
                THEN { history }
                ELSE loop_backtracker(g, Append(history, node))
                : node \in g[current_node] }

loop_backtracker(g, history) ==
    LET current_node == history[Len(history)]
    IN  UNION { IF node \in Range(history)
                THEN { SubSeq(history, Position(history, node), Len(history)) }
                ELSE loop_backtracker(g, Append(history, node))
                : node \in g[current_node] }

\* A find_loop that starts the search from one key only.
find_loop_one_key(g) ==
    IF DOMAIN g = {} THEN {}
    ELSE loop_backtracker(g, <<CHOOSE node \in DOMAIN g : TRUE>>)

find_loop(g) == UNION { loop_backtracker(g, <<node>>) : node \in DOMAIN g }

----------------------------------------------------------------------------
\* LockManagerInner::analyse and handle_deadlock

\* The Lock -> Thread edges of analyse: one per holder record.
HolderEdges(lks) ==
    UNION { { <<LockNode(l), ThreadNode(lks[l].readers[i])>> : i \in DOMAIN lks[l].readers }
            : l \in DOMAIN lks }

\* Thread -> Lock edges for every request, whatever its mode.
RequestEdges_every_request(lks) ==
    UNION { { <<ThreadNode(r), LockNode(l)>> : r \in DOMAIN lks[l].requests }
            : l \in DOMAIN lks }

\* The Thread -> Lock edges of analyse: a request counts when it is a Write
\* request or when the lock is write_locked.
RequestEdges(lks) ==
    UNION { { <<ThreadNode(r), LockNode(l)>> :
                r \in { q \in DOMAIN lks[l].requests :
                          lks[l].write_locked \/ lks[l].requests[q] = "Write" } }
            : l \in DOMAIN lks }

\* The loops of analyse: the edges are added one by one.  Each intermediate
\* graph is bound as a value (h) so that it is built once.
RECURSIVE AddEdges(_, _)
AddEdges(g, edges) ==
    IF edges = {} THEN g
    ELSE LET e == CHOOSE x \in edges : TRUE
         IN  CHOOSE r \in { AddEdges(h, rest) :
                              h \in {add_edge_and_nodes(g, e[1], e[2])},
                              rest \in {edges \ {e}} } : TRUE

DependencyGraph(lks) == AddEdges(EmptyMap, HolderEdges(lks) \cup RequestEdges(lks))

\* What graph.find_loop() can return inside analyse; {} when it returns None.
analyse(lks) == UNION { find_loop(graph) : graph \in {DependencyGraph(lks)} }

\* A handle_deadlock that panics whatever the cycle.
handle_deadlock_unconditional(dependence_cycle, id) == TRUE

\* TRUE when handle_deadlock goes on to write the report and panic.
handle_deadlock(dependence_cycle, id) == ThreadNode(id) \in Range(dependence_cycle)

----------------------------------------------------------------------------
\* The state after construction: Mutex::new / RwLock::new have created the
\* locks, no thread has called anything yet.

InitWith(kinds) ==
    /\ kind \in kinds
    /\ locks = [l \in Locks |-> NewRepresentation]
    /\ poisoned = [l \in Locks |-> FALSE]
    /\ pc = [t \in Threads |-> "idle"]
    /\ target = [t \in Threads |-> NoLock]
    /\ mode = [t \in Threads |-> "Write"]
    /\ guards = [t \in Threads |-> [l \in Locks |-> [m \in Modes |-> 0]]]
    /\ report = [t \in Threads |-> <<>>]
    /\ ret = "None"
    /\ ran = NoThread
    /\ found = <<>>
    /\ tainted = [l \in Locks |-> FALSE]
    /\ manager = [lock |-> 0,
                  pc |-> [t \in Threads |-> "idle"],
                  state |-> [t \in Threads |-> 0],
                  read_guards |-> [t \in Threads |-> 0],
                  write_guards |-> [t \in Threads |-> 0]]
    /\ global = [ptr |-> NoThread,
                 pc |-> [t \in Threads |-> "idle"],
                 manager |-> [t \in Threads |-> NoThread],
                 new_manager |-> [t \in Threads |-> NoThread],
                 returned |-> [t \in Threads |-> <<>>],
                 live |-> {},
                 freed |-> {}]
    /\ search = [graph |-> EmptyMap, added |-> 0, called |-> FALSE, result |-> <<>>]
    /\ cv = [pc |-> [t \in Threads |-> "idle"], owner |-> NoThread, native |-> NoThread, waiting |-> {}, notifies |-> 0, after |-> FALSE, notified |-> FALSE]
    /\ run = [pc |-> [t \in Threads |-> "idle"], op |-> [t \in Threads |-> "none"]]
    /\ registry = [next_key |-> 0, locks |-> EmptyMap, alive |-> {}, returned |-> <<>>, removed |-> EmptyMap, op |-> "None", key |-> 0, before |-> EmptyMap]
    /\ subs = [requests |-> EmptyMap, before |-> EmptyMap, called |-> FALSE, id |-> NoThread, type |-> "Read", trace |-> 0]

\* The step does not run analyse.
NoAnalysis == ran' = NoThread /\ found' = <<>>

\* Lock 1 is a Mutex, lock 2 a Mutex or an RwLock.
Init == InitWith({k \in [Locks -> {"Mutex", "RwLock"}] : k[1] = "Mutex"})

\* A wrapper that does not look at the poison flag.
Wrap_ignores_flag(l) == "Ok"

\* self.is_poisoned() wrapped around the returned guard
Wrap(l) == IF poisoned[l] THEN "Poisoned" ELSE "Ok"

try_acquire(rep, id, m) ==
    IF m = "Write" THEN try_write_lock(rep, id) ELSE try_read_lock(rep, id)

subscribe(rep, id, m) ==
    IF m = "Write" THEN subscribe_write(rep, id) ELSE subscribe_read(rep, id)

\* The client keeps the number of holder records of an entry bounded.
ReadBudget(l) ==
    Len(locks[l].readers)
      + Cardinality({u \in Threads : pc[u] = "lock" /\ target[u] = l /\ mode[u] = "Read"})
      < MaxReaders

\* A try operation that records a request when it fails.
TryCall_subscribes(t, l, m) ==
    /\ pc[t] = "idle"
    /\ UNCHANGED untouched
    /\ LET r == try_acquire(locks[l], t, m)
       IN  IF r.ok
           THEN /\ locks' = [locks EXCEPT ![l] = r.rep]
                /\ guards' = [guards EXCEPT ![t][l][m] = @ + 1]
                /\ ret' = Wrap(l)
                /\ NoAnalysis
           ELSE /\ locks' = [locks EXCEPT ![l] = subscribe(locks[l], t, m)]
                /\ guards' = guards
                /\ ret' = "WouldBlock"
                /\ NoAnalysis
    /\ UNCHANGED <<kind, poisoned, pc, target, mode, report, tainted>>

\* Mutex::try_lock, RwLock::try_read, RwLock::try_write
TryCall(t, l, m) ==
    /\ pc[t] = "idle"
    /\ UNCHANGED untouched
    /\ LET r == try_acquire(locks[l], t, m)
       IN  /\ locks' = [locks EXCEPT ![l] = r.rep]
           /\ IF r.ok
              THEN /\ guards' = [guards EXCEPT ![t][l][m] = @ + 1]
                   /\ ret' = Wrap(l)
                   /\ NoAnalysis
              ELSE /\ guards' = guards
                   /\ ret' = "WouldBlock"
                   /\ NoAnalysis
    /\ UNCHANGED <<kind, poisoned, pc, target, mode, report, tainted>>

try_lock(t, l) == kind[l] = "Mutex" /\ TryCall(t, l, "Write")

try_write(t, l) == kind[l] = "RwLock" /\ TryCall(t, l, "Write")

try_read(t, l) == kind[l] = "RwLock" /\ ReadBudget(l) /\ TryCall(t, l, "Read")

\* Entering Mutex::lock, RwLock::read, RwLock::write: start = Instant::now()
EnterCall(t, l, m) ==
    /\ pc[t] = "idle"
    /\ UNCHANGED untouched
    /\ pc' = [pc EXCEPT ![t] = "lock"]
    /\ target' = [target EXCEPT ![t] = l]
    /\ mode' = [mode EXCEPT ![t] = m]
    /\ ret' = "None"
    /\ NoAnalysis
    /\ UNCHANGED <<kind, locks, poisoned, guards, report, tainted>>

lock(t, l) == kind[l] = "Mutex" /\ EnterCall(t, l, "Write")

write(t, l) == kind[l] = "RwLock" /\ EnterCall(t, l, "Write")

read(t, l) == kind[l] = "RwLock" /\ ReadBudget(l) /\ EnterCall(t, l, "Read")

\* One iteration of the loop of Mutex::lock / RwLock::read / RwLock::write.
\* Instant::now().duration_since(start) > timeout holds from some iteration
\* on: certainly once the thread has subscribed, and else when the clock says
\* so (expired).
Iteration(t, expired) ==
    /\ pc[t] = "lock"
    /\ UNCHANGED untouched
    /\ LET l == target[t]
           m == mode[t]
           r == try_acquire(locks[l], t, m)
       IN  IF r.ok
           THEN /\ locks' = [locks EXCEPT ![l] = r.rep]
                /\ guards' = [guards EXCEPT ![t][l][m] = @ + 1]
                /\ ret' = Wrap(l)
                /\ NoAnalysis
                /\ pc' = [pc EXCEPT ![t] = "idle"]
                /\ target' = [target EXCEPT ![t] = NoLock]
                /\ mode' = [mode EXCEPT ![t] = "Write"]
                /\ UNCHANGED <<kind, poisoned, report, tainted>>
           ELSE IF expired \/ t \in DOMAIN locks[l].requests
           THEN LET lks == [locks EXCEPT ![l] = subscribe(locks[l], t, m)]
                    loops == analyse(lks)
                IN  /\ locks' = lks
                    /\ ran' = t
                    /\ \/ /\ loops = {}
                          /\ found' = <<>>
                          /\ UNCHANGED <<pc, report>>
                       \/ \E result \in loops :
                             /\ found' = result
                             /\ IF handle_deadlock(result, t)
                                THEN /\ pc' = [pc EXCEPT ![t] = "panicking"]
                                     /\ report' = [report EXCEPT ![t] = result]
                                ELSE UNCHANGED <<pc, report>>
                    /\ ret' = "None"
                    /\ UNCHANGED <<kind, poisoned, target, mode, guards, tainted>>
           ELSE /\ ret' = "None"
                /\ NoAnalysis
                /\ UNCHANGED <<kind, locks, poisoned, pc, target, mode, guards, report, tainted>>

\* An iteration before the analysis timeout, unless the thread has subscribed.
spin(t) == Iteration(t, FALSE)

\* An iteration after the analysis timeout.
spin_late(t) == Iteration(t, TRUE)

\* Drop of a MutexGuard / RwLockReadGuard / RwLockWriteGuard by a thread that
\* is not panicking.
drop(t, l, m) ==
    /\ pc[t] = "idle"
    /\ UNCHANGED untouched
    /\ guards[t][l][m] > 0
    /\ locks' = [locks EXCEPT ![l] = unlock(@, t)]
    /\ guards' = [guards EXCEPT ![t][l][m] = @ - 1]
    /\ ret' = "None"
    /\ NoAnalysis
    /\ UNCHANGED <<kind, poisoned, pc, target, mode, report, tainted>>

\* A guard is handed to another thread (the guards are Send).
send_guard(t, u, l, m) ==
    /\ t # u
    /\ UNCHANGED untouched
    /\ pc[t] = "idle"
    /\ pc[u] = "idle"
    /\ guards[t][l][m] > 0
    /\ guards' = [guards EXCEPT ![t][l][m] = @ - 1, ![u][l][m] = @ + 1]
    /\ ret' = "None"
    /\ NoAnalysis
    /\ UNCHANGED <<kind, locks, poisoned, pc, target, mode, report, tainted>>

\* The thread panics in its own code.
panic(t) ==
    /\ pc[t] = "idle"
    /\ UNCHANGED untouched
    /\ pc' = [pc EXCEPT ![t] = "panicking"]
    /\ ret' = "None"
    /\ NoAnalysis
    /\ UNCHANGED <<kind, locks, poisoned, target, mode, guards, report, tainted>>

\* A drop that does not ask std::thread::panicking().
unwind_drop_no_poison(t, l, m) ==
    /\ pc[t] = "panicking"
    /\ UNCHANGED untouched
    /\ guards[t][l][m] > 0
    /\ locks' = [locks EXCEPT ![l] = unlock(@, t)]
    /\ guards' = [guards EXCEPT ![t][l][m] = @ - 1]
    /\ tainted' = [tainted EXCEPT ![l] = TRUE]
    /\ ret' = "None"
    /\ NoAnalysis
    /\ UNCHANGED <<kind, poisoned, pc, target, mode, report>>

\* Unwinding drops one guard of the panicking thread:
\* std::thread::panicking() holds, the lock is poisoned.
unwind_drop(t, l, m) ==
    /\ pc[t] = "panicking"
    /\ UNCHANGED untouched
    /\ guards[t][l][m] > 0
    /\ locks' = [locks EXCEPT ![l] = unlock(@, t)]
    /\ poisoned' = [poisoned EXCEPT ![l] = TRUE]
    /\ tainted' = [tainted EXCEPT ![l] = TRUE]
    /\ guards' = [guards EXCEPT ![t][l][m] = @ - 1]
    /\ ret' = "None"
    /\ NoAnalysis
    /\ UNCHANGED <<kind, pc, target, mode, report>>

\* Unwinding is over, the thread is gone.
unwind_end(t) ==
    /\ pc[t] = "panicking"
    /\ UNCHANGED untouched
    /\ \A l \in Locks : \A m \in Modes : guards[t][l][m] = 0
    /\ pc' = [pc EXCEPT ![t] = "dead"]
    /\ ret' = "None"
    /\ NoAnalysis
    /\ UNCHANGED <<kind, locks, poisoned, target, mode, guards, report, tainted>>

\* The closure of the thread ends: its locals go out of scope.
return(t) ==
    /\ pc[t] = "idle"
    /\ UNCHANGED untouched
    /\ pc' = [pc EXCEPT ![t] = "returning"]
    /\ ret' = "None"
    /\ NoAnalysis
    /\ UNCHANGED <<kind, locks, poisoned, target, mode, guards, report, tainted>>

\* A guard goes out of scope at the end of the closure.
return_drop(t, l, m) ==
    /\ pc[t] = "returning"
    /\ UNCHANGED untouched
    /\ guards[t][l][m] > 0
    /\ locks' = [locks EXCEPT ![l] = unlock(@, t)]
    /\ guards' = [guards EXCEPT ![t][l][m] = @ - 1]
    /\ ret' = "None"
    /\ NoAnalysis
    /\ UNCHANGED <<kind, poisoned, pc, target, mode, report, tainted>>

\* The thread has returned.
return_end(t) ==
    /\ pc[t] = "returning"
    /\ UNCHANGED untouched
    /\ \A l \in Locks : \A m \in Modes : guards[t][l][m] = 0
    /\ pc' = [pc EXCEPT ![t] = "done"]
    /\ ret' = "None"
    /\ NoAnalysis
    /\ UNCHANGED <<kind, locks, poisoned, target, mode, guards, report, tainted>>

Next ==
    \E t \in Clients :
        \/ \E l \in Locks : try_lock(t, l)
        \/ \E l \in Locks : try_write(t, l)
        \/ \E l \in Locks : try_read(t, l)
        \/ \E l \in Locks : lock(t, l)
        \/ \E l \in Locks : write(t, l)
        \/ \E l \in Locks : read(t, l)
        \/ spin(t)
        \/ spin_late(t)
        \/ \E l \in Locks : \E m \in Modes : drop(t, l, m)
        \/ \E l \in Locks : \E m \in Modes : \E u \in Clients : send_guard(t, u, l, m)
        \/ panic(t)
        \/ \E l \in Locks : \E m \in Modes : unwind_drop(t, l, m)
        \/ unwind_end(t)

Spec == Init /\ [][Next]_vars

----------------------------------------------------------------------------
\* Properties

RECURSIVE Sum(_, _)
Sum(f, S) == IF S = {} THEN 0 ELSE LET x == CHOOSE y \in S : TRUE IN f[x] + Sum(f, S \ {x})

\* The live guards of lock l in mode m, whoever owns them.
LiveGuards(l, m) == Sum([t \in Threads |-> guards[t][l][m]], Threads)

\* Thread t is inside a blocking acquisition of lock l.
Blocked(t, l) == pc[t] = "lock" /\ target[t] = l

\* Thread t is blocked on l and has recorded its request.
Subscribed(t, l) == Blocked(t, l) /\ t \in DOMAIN locks[l].requests

\* C1: a Mutex never has more than one live MutexGuard, and its registry
\* entry never has more than one holder record.
C1_MutualExclusion ==
    \A l \in Locks :
        kind[l] = "Mutex" =>
            /\ LiveGuards(l, "Write") <= 1
            /\ Len(locks[l].readers) <= 1

\* A Mutex is held through a live guard while another thread, blocked in
\* lock() beyond the analysis timeout, is waiting for it.
C1_Witness ==
    \E l \in Locks : \E t \in Threads :
        /\ kind[l] = "Mutex"
        /\ LiveGuards(l, "Write") = 1
        /\ Subscribed(t, l)
        /\ guards[t][l]["Write"] = 0

\* C2: an RwLock has at most one live write guard, and no live read guard
\* while a write guard is live.
C2_RwExclusion ==
    \A l \in Locks :
        kind[l] = "RwLock" =>
            /\ LiveGuards(l, "Write") <= 1
            /\ LiveGuards(l, "Write") = 1 => LiveGuards(l, "Read") = 0

\* A write guard of an RwLock is live while a reader, blocked in read()
\* beyond the analysis timeout, is waiting for it.
C2_Witness ==
    \E l \in Locks : \E t \in Threads :
        /\ kind[l] = "RwLock"
        /\ LiveGuards(l, "Write") = 1
        /\ Subscribed(t, l)
        /\ mode[t] = "Read"


\* Thread t is a node of some cycle of the wait-for graph of registry lks.
OnCycle(t, lks) == \E c \in analyse(lks) : ThreadNode(t) \in Range(c)

\* C3: a thread that runs analyse while its node is on a cycle of the graph
\* panics in that call.
C3_PanicsWhenOnCycle ==
    (ran # NoThread /\ OnCycle(ran, locks)) => pc[ran] = "panicking"

\* C8: a thread whose node is not on the cycle find_loop returned does not
\* panic in analyse: it is still inside its acquisition loop.
C8_NonMemberReturns ==
    (ran # NoThread /\ ThreadNode(ran) \notin Range(found)) => Blocked(ran, target[ran])

\* analyse has just found a cycle that the analysing thread is not part of.
C8_Witness ==
    /\ ran # NoThread
    /\ found # <<>>
    /\ ThreadNode(ran) \notin Range(found)
    /\ Subscribed(ran, target[ran])


\* Thread t is recorded as a holder of lock l.
IsHolder(t, l) == t \in Range(locks[l].readers)

\* Thread t owns a live guard of lock l.
HoldsGuard(t, l) == \E m \in Modes : guards[t][l][m] > 0

\* In this step thread t acquires lock l: it gets a new guard and a holder
\* record is pushed.
Acquires(t, l) ==
    /\ locks'[l].readers # locks[l].readers
    /\ \E m \in Modes : guards'[t][l][m] = guards[t][l][m] + 1

\* On cycle c thread u waits for lock l, which thread p holds.
WaitsFor(c, u, l, p) ==
    \E i \in DOMAIN c :
        LET j == (i % Len(c)) + 1
            k == (j % Len(c)) + 1
        IN  c[i] = ThreadNode(u) /\ c[j] = LockNode(l) /\ c[k] = ThreadNode(p)

PanickedHolding(l) ==
    \/ tainted[l]
    \/ \E p \in Threads : pc[p] = "panicking" /\ HoldsGuard(p, l)

\* C10 as stated: from the moment a thread panics while holding a guard of a
\* lock, every successful acquisition of that lock returns Poisoned.
C10_PoisonedFromPanic ==
    [][\A l \in Locks : \A t \in Threads :
          (PanickedHolding(l) /\ Acquires(t, l)) => ret' = "Poisoned"]_vars

\* C10, amended: once unwinding has dropped a guard of a lock that a
\* panicking thread held, is_poisoned() is true, every successful acquisition
\* of the lock returns Poisoned, and the flag is never cleared.
C10_PoisonedAfterRelease ==
    [][\A l \in Locks :
          /\ tainted'[l] => poisoned'[l]
          /\ poisoned[l] => poisoned'[l]
          /\ \A t \in Threads :
                (tainted[l] /\ Acquires(t, l)) => ret' = "Poisoned"]_vars

\* A thread has acquired, as Poisoned, a lock whose guard a panicking thread
\* dropped while unwinding.
C10_Witness ==
    \E l \in Locks : \E t \in Threads :
        /\ tainted[l]
        /\ poisoned[l]
        /\ ret = "Poisoned"
        /\ HoldsGuard(t, l)
        /\ IsHolder(t, l)
        /\ pc[t] = "idle"


\* The live guards of lock l, of either mode.
AllGuards(l) == LiveGuards(l, "Read") + LiveGuards(l, "Write")

\* C11: once every guard of a lock has been dropped, by whichever thread,
\* the entry has no holder record and write_locked is false, so that
\* try_write_lock and try_read_lock both succeed on it.
C11_ReleaseComplete ==
    \A l \in Locks :
        AllGuards(l) = 0 =>
            /\ locks[l].readers = <<>>
            /\ ~locks[l].write_locked
            /\ \A t \in Threads :
                  try_write_lock(locks[l], t).ok /\ try_read_lock(locks[l], t).ok


\* C12: try_lock and try_write return WouldBlock exactly when the entry has
\* a holder record, try_read exactly when the entry is write_locked; a try
\* operation that returns WouldBlock changes no entry, records no request,
\* runs no analysis and does not panic.
C12_WouldBlock ==
    [][/\ \A t \in Threads : \A l \in Locks :
            /\ (try_lock(t, l) \/ try_write(t, l)) =>
                  (ret' = "WouldBlock" <=> Len(locks[l].readers) > 0)
            /\ try_read(t, l) =>
                  (ret' = "WouldBlock" <=> locks[l].write_locked)
       /\ ret' = "WouldBlock" =>
            /\ locks' = locks
            /\ guards' = guards
            /\ ran' = NoThread
            /\ pc' = pc
            /\ report' = report]_vars

\* A try operation has just returned WouldBlock to a thread that holds the
\* lock itself: it is the only idle thread, it holds lock l, and no other
\* lock has a holder.
C12_Witness ==
    \E t \in Clients : \E l \in Locks :
        /\ ret = "WouldBlock"
        /\ pc[t] = "idle"
        /\ \A u \in Clients \ {t} : pc[u] # "idle"
        /\ HoldsGuard(t, l)
        /\ IsHolder(t, l)
        /\ \A h \in Locks \ {l} : locks[h].readers = <<>> /\ ~locks[h].write_locked


\* C13: a thread has an entry in requests of a lock only while it is inside
\* a blocking acquisition of that lock; no entry remains once the call has
\* ended, by an acquisition or by a deadlock panic.
C13_RequestsOnlyWhileBlocked ==
    \A t \in Threads : \A l \in Locks :
        t \in DOMAIN locks[l].requests => Blocked(t, l)

\* C14: a thread recorded in holders of a lock has no entry in requests of
\* that lock.
C14_HolderHasNoRequest ==
    \A t \in Threads : \A l \in Locks :
        IsHolder(t, l) => t \notin DOMAIN locks[l].requests

\* The number of records of thread t in holders of lock l.
Records(t, l) == Cardinality({i \in DOMAIN locks[l].readers : locks[l].readers[i] = t})

C16_WriteLockedIffWriter ==
    \A l \in Locks :
        /\ locks[l].write_locked => Len(locks[l].readers) = 1
        /\ kind[l] = "Mutex" =>
              (locks[l].write_locked <=> locks[l].readers # <<>>)

\* C23: a deadlock cycle is reported once: no two threads have panicked with
\* a deadlock report for the same cycle (the same set of nodes).
C23_OneReportPerCycle ==
    \A p \in Threads : \A u \in Threads \ {p} :
        (report[p] # <<>> /\ report[u] # <<>>) => Range(report[p]) # Range(report[u])

\* C24: when a thread panics in analyse, every thread of the reported cycle
\* is inside a blocking acquisition of the next lock of the cycle, that lock
\* is held by the following thread of the cycle, which owns a guard of it,
\* and no other thread of the cycle has panicked.
C24_GenuineDeadlock ==
    (ran # NoThread /\ pc[ran] = "panicking" /\ found # <<>>) =>
        \A u \in Threads : \A l \in Locks : \A p \in Threads :
            WaitsFor(found, u, l, p) =>
                /\ target[u] = l
                /\ u # ran => pc[u] = "lock"
                /\ IsHolder(p, l)
                /\ HoldsGuard(p, l)

\* The edges of a graph.
GraphEdges(g) == UNION { { <<n, m>> : m \in g[n] } : n \in DOMAIN g }

\* The request of thread t on lock l counts as waiting: it is a Write
\* request, or the lock is write_locked.
CountedRequest(t, l) ==
    /\ t \in DOMAIN locks[l].requests
    /\ locks[l].requests[t] = "Write" \/ locks[l].write_locked

\* The pairs of neighbours on the cycle c, the last and the first included.
CycleEdges(c) == { <<c[i], c[(i % Len(c)) + 1]>> : i \in DOMAIN c }

\* C20: the graph that analyse builds from the registry has exactly the
\* edges Lock(l) -> Thread(t) for the holder records and Thread(t) -> Lock(l)
\* for the requests that are Write requests or whose lock is write_locked.  A
\* Read request on a lock that is not write_locked gives no edge, so no cycle
\* that find_loop returns to analyse goes through such a request.
C20_AnalyseEdges ==
    /\ GraphEdges(DependencyGraph(locks)) =
          { <<LockNode(l), ThreadNode(t)>> :
              <<l, t>> \in { p \in Locks \X Threads : IsHolder(p[2], p[1]) } }
          \cup
          { <<ThreadNode(t), LockNode(l)>> :
              <<t, l>> \in { p \in Threads \X Locks : CountedRequest(p[1], p[2]) } }
    /\ ran # NoThread =>
          \A t \in Threads : \A l \in Locks :
              <<ThreadNode(t), LockNode(l)>> \in CycleEdges(found) =>
                  CountedRequest(t, l)

\* A thread u has run analyse and found no cycle while it waits to write a
\* lock held by t, t waits with a Read request for a lock that u holds for
\* reading and that is not write_locked: with an edge for that request the
\* graph would have had a cycle.
C20_Witness ==
    \E u \in Threads : \E t \in Threads \ {u} : \E l \in Locks : \E h \in Locks \ {l} :
        /\ ran = u
        /\ found = <<>>
        /\ t \in DOMAIN locks[l].requests
        /\ locks[l].requests[t] = "Read"
        /\ ~locks[l].write_locked
        /\ IsHolder(u, l)
        /\ IsHolder(t, h)
        /\ CountedRequest(u, h)


----------------------------------------------------------------------------
\* The program in which every thread follows the global lock order 1 < 2:
\* it enters a blocking acquisition of l only when every lock it holds (it
\* owns a guard of it, or the registry records it as a holder) is ordered
\* before l.

FollowsOrder(t, l) == \A h \in Locks : (HoldsGuard(t, h) \/ IsHolder(t, h)) => h < l

OrderedNext ==
    \E t \in Clients :
        \/ \E l \in Locks : try_lock(t, l)
        \/ \E l \in Locks : try_write(t, l)
        \/ \E l \in Locks : try_read(t, l)
        \/ \E l \in Locks : FollowsOrder(t, l) /\ lock(t, l)
        \/ \E l \in Locks : FollowsOrder(t, l) /\ write(t, l)
        \/ \E l \in Locks : FollowsOrder(t, l) /\ read(t, l)
        \/ spin(t)
        \/ spin_late(t)
        \/ \E l \in Locks : \E m \in Modes : drop(t, l, m)
        \/ \E l \in Locks : \E m \in Modes : \E u \in Clients : send_guard(t, u, l, m)
        \/ panic(t)
        \/ \E l \in Locks : \E m \in Modes : unwind_drop(t, l, m)
        \/ unwind_end(t)

OrderedSpec == Init /\ [][OrderedNext]_vars

----------------------------------------------------------------------------
\* The programs of the end-to-end tests.  Both locks are Mutexes.

MutexInit == InitWith({[l \in Locks |-> "Mutex"]})

NoGuards(t) == \A l \in Locks : ~HoldsGuard(t, l)

\* reported_issue_5: the thread locks the shared mutex (lock 1) once, holds
\* the guard for a while and returns.
Shared(t) ==
    \/ NoGuards(t) /\ lock(t, 1)
    \/ spin(t)
    \/ spin_late(t)
    \/ HoldsGuard(t, 1) /\ return(t)
    \/ return_drop(t, 1, "Write")
    \/ return_end(t)

SharedNext == \E t \in Threads : Shared(t)

\* Fair scheduling: a thread that can take a step of its program eventually
\* takes one, and the wait of a thread that stays blocked eventually exceeds
\* the analysis timeout.
SharedSpec ==
    /\ MutexInit
    /\ [][SharedNext]_vars
    /\ \A t \in Threads : WF_vars(Shared(t)) /\ WF_vars(spin_late(t))

\* reentrance_detection: the thread locks the mutex (lock 1) and, still
\* holding the guard, locks it again.
Reentrant(t) ==
    \/ NoGuards(t) /\ lock(t, 1)
    \/ HoldsGuard(t, 1) /\ lock(t, 1)
    \/ spin(t)
    \/ spin_late(t)
    \/ unwind_drop(t, 1, "Write")
    \/ unwind_end(t)

\* Thread 1 reenters, threads 2 and 3 use the same mutex once.
ReentranceNext == Reentrant(1) \/ \E t \in {2, 3} : Shared(t)

ReentranceSpec ==
    /\ MutexInit
    /\ [][ReentranceNext]_vars
    /\ WF_vars(Reentrant(1))
    /\ \A t \in {2, 3} : WF_vars(Shared(t))
    /\ \A t \in Threads : WF_vars(spin_late(t))

\* with_deadlock: the thread locks first, then second, and returns.
TwoLocks(t, first, second) ==
    \/ NoGuards(t) /\ lock(t, first)
    \/ HoldsGuard(t, first) /\ ~HoldsGuard(t, second) /\ lock(t, second)
    \/ spin(t)
    \/ spin_late(t)
    \/ HoldsGuard(t, first) /\ HoldsGuard(t, second) /\ return(t)
    \/ \E l \in Locks : return_drop(t, l, "Write")
    \/ return_end(t)
    \/ \E l \in Locks : unwind_drop(t, l, "Write")
    \/ unwind_end(t)

\* Thread 1 locks 1 then 2, thread 2 locks 2 then 1, thread 3 uses lock 1.
ABBANext == TwoLocks(1, 1, 2) \/ TwoLocks(2, 2, 1) \/ Shared(3)

ABBASpec ==
    /\ MutexInit
    /\ [][ABBANext]_vars
    /\ WF_vars(TwoLocks(1, 1, 2))
    /\ WF_vars(TwoLocks(2, 2, 1))
    /\ WF_vars(Shared(3))
    /\ \A t \in Threads : WF_vars(spin_late(t))


----------------------------------------------------------------------------
\* Properties of the scenarios

\* Thread 1 holds mutex 1 and is blocked in lock(2) while thread 2 holds
\* mutex 2 and is blocked in lock(1).
ABBADeadlock ==
    /\ HoldsGuard(1, 1) /\ IsHolder(1, 1) /\ Blocked(1, 2)
    /\ HoldsGuard(2, 2) /\ IsHolder(2, 2) /\ Blocked(2, 1)

\* The cycle c has 4 nodes, alternates Thread, Lock, Thread, Lock and goes
\* through threads 1 and 2 and locks 1 and 2.
IsABBACycle(c) ==
    /\ Len(c) = 4
    /\ Range(c) = {ThreadNode(1), ThreadNode(2), LockNode(1), LockNode(2)}
    /\ \A i \in 1..3 : c[i][1] # c[i + 1][1]

\* C4: in the AB/BA deadlock one of the two threads eventually panics with a
\* deadlock report, and a cycle reported by either has the 4 nodes Thread,
\* Lock, Thread, Lock of the two threads and the two locks.
C4_ABBAReported ==
    /\ ABBADeadlock ~> (report[1] # <<>> \/ report[2] # <<>>)
    /\ [](\A t \in {1, 2} : report[t] # <<>> => IsABBACycle(report[t]))

\* One of the two threads has panicked out of the AB/BA deadlock.
C4_Witness ==
    \E t \in {1, 2} : pc[t] = "panicking" /\ IsABBACycle(report[t]) /\ ran = t

\* Thread t is inside lock(l) on a mutex it holds.
Reentering(t, l) == HoldsGuard(t, l) /\ IsHolder(t, l) /\ Blocked(t, l)

\* C5: a thread that calls lock() on a Mutex it holds never acquires it, it
\* eventually panics, and the cycle it reports consists of its Thread node
\* and the Lock node of that mutex.
C5_ReentranceReported ==
    /\ Reentering(1, 1) ~> (pc[1] = "panicking")
    /\ [](guards[1][1]["Write"] <= 1)
    /\ [](report[1] # <<>> =>
             /\ Len(report[1]) = 2
             /\ Range(report[1]) = {ThreadNode(1), LockNode(1)})

\* The reentering thread has panicked with the 2-node cycle.
C5_Witness ==
    /\ pc[1] = "panicking"
    /\ ran = 1
    /\ Len(report[1]) = 2
    /\ guards[1][1]["Write"] = 1

\* C7: every thread that locks the shared mutex once eventually acquires it
\* and terminates, and none of them panics.
C7_AllTerminate ==
    /\ <>(\A t \in Threads : pc[t] = "done")
    /\ [](\A t \in Threads : pc[t] # "panicking" /\ report[t] = <<>>)

\* A thread has waited beyond the analysis timeout, has run analyse and is
\* still waiting while another thread holds the guard.
C7_Witness ==
    \E t \in Threads :
        /\ ran = t
        /\ Subscribed(t, 1)
        /\ LiveGuards(1, "Write") = 1

----------------------------------------------------------------------------
\* The spinlock of the manager: LockManager::read_lock / write_lock and the
\* drops of LockManagerReadGuard / LockManagerWriteGuard.  The atomic
\* operations on LockManagerInner.lock are the steps.

\* How many LockManagerReadGuards a thread keeps at most.
MaxManagerGuards == 2

\* The registry and the client threads stay as they are.
RegistryUnchanged ==
    UNCHANGED <<kind, locks, poisoned, pc, target, mode, guards, report, ret, ran, found,
                tainted>>

\* read_lock: let mut state = self.lock.load(Relaxed)
read_lock_load(t) ==
    /\ manager.pc[t] = "idle"
    /\ manager.read_guards[t] < MaxManagerGuards
    /\ manager' = [manager EXCEPT !.pc[t] = "read_lock", !.state[t] = manager.lock]
    /\ RegistryUnchanged
    /\ UNCHANGED <<global, search, subs, registry, run, cv>>

\* A read_lock that stores state + 1 instead of compare_exchange.
read_lock_stores(t) ==
    /\ manager.pc[t] = "read_lock"
    /\ IF manager.state[t] >= 0
       THEN manager' = [manager EXCEPT !.lock = manager.state[t] + 1,
                                       !.read_guards[t] = @ + 1,
                                       !.pc[t] = "idle",
                                       !.state[t] = 0]
       ELSE manager' = [manager EXCEPT !.state[t] = manager.lock]
    /\ RegistryUnchanged
    /\ UNCHANGED <<global, search, subs, registry, run, cv>>

\* read_lock: one iteration of the loop.  With state >= 0 the
\* compare_exchange(state, state + 1) either succeeds and the guard is
\* returned, or fails and hands back the current value; with state < 0 the
\* value is loaded again.
read_lock(t) ==
    /\ manager.pc[t] = "read_lock"
    /\ IF manager.state[t] >= 0 /\ manager.lock = manager.state[t]
       THEN manager' = [manager EXCEPT !.lock = manager.state[t] + 1,
                                       !.read_guards[t] = @ + 1,
                                       !.pc[t] = "idle",
                                       !.state[t] = 0]
       ELSE manager' = [manager EXCEPT !.state[t] = manager.lock]
    /\ RegistryUnchanged
    /\ UNCHANGED <<global, search, subs, registry, run, cv>>

\* write_lock is entered.
write_lock_enter(t) ==
    /\ manager.pc[t] = "idle"
    /\ manager' = [manager EXCEPT !.pc[t] = "write_lock"]
    /\ RegistryUnchanged
    /\ UNCHANGED <<global, search, subs, registry, run, cv>>

\* write_lock: the compare_exchange_weak(0, -1) that succeeds; one that
\* fails, spuriously or not, changes nothing and the loop goes on.
write_lock(t) ==
    /\ manager.pc[t] = "write_lock"
    /\ manager.lock = 0
    /\ manager' = [manager EXCEPT !.lock = -1,
                                  !.write_guards[t] = @ + 1,
                                  !.pc[t] = "idle"]
    /\ RegistryUnchanged
    /\ UNCHANGED <<global, search, subs, registry, run, cv>>

\* Drop for LockManagerReadGuard: fetch_sub(1)
drop_read_guard(t) ==
    /\ manager.pc[t] = "idle"
    /\ manager.read_guards[t] > 0
    /\ manager' = [manager EXCEPT !.lock = @ - 1, !.read_guards[t] = @ - 1]
    /\ RegistryUnchanged
    /\ UNCHANGED <<global, search, subs, registry, run, cv>>

\* Drop for LockManagerWriteGuard: store(0)
drop_write_guard(t) ==
    /\ manager.pc[t] = "idle"
    /\ manager.write_guards[t] > 0
    /\ manager' = [manager EXCEPT !.lock = 0, !.write_guards[t] = @ - 1]
    /\ RegistryUnchanged
    /\ UNCHANGED <<global, search, subs, registry, run, cv>>

ManagerNext ==
    \E t \in Threads :
        \/ read_lock_load(t)
        \/ read_lock(t)
        \/ write_lock_enter(t)
        \/ write_lock(t)
        \/ drop_read_guard(t)
        \/ drop_write_guard(t)

ManagerSpec == MutexInit /\ [][ManagerNext]_vars

\* The live LockManagerReadGuards / LockManagerWriteGuards.
LiveReadGuards == Sum(manager.read_guards, Threads)
LiveWriteGuards == Sum(manager.write_guards, Threads)

\* C17: the counter of the manager is -1 or a natural number; it is -1
\* exactly while one write guard is live, and then no read guard and no
\* second write guard is live; otherwise it is the number of live read
\* guards.
C17_ManagerCounter ==
    /\ manager.lock = -1 \/ manager.lock \in Nat
    /\ LiveWriteGuards <= 1
    /\ manager.lock = -1 <=> LiveWriteGuards = 1
    /\ LiveWriteGuards = 1 => LiveReadGuards = 0
    /\ manager.lock # -1 => manager.lock = LiveReadGuards

\* A write guard is live while another thread is inside read_lock with a
\* value of the counter that it loaded before the writer came.
C17_Witness ==
    \E t \in Threads : \E u \in Threads \ {t} :
        /\ manager.write_guards[t] = 1
        /\ manager.lock = -1
        /\ manager.pc[u] = "read_lock"
        /\ manager.state[u] >= 0


----------------------------------------------------------------------------
\* LockManager::get_global_manager.  A manager that a thread allocates is
\* named after that thread; NoThread is the null pointer.

\* How many times a thread calls get_global_manager at most.
MaxGlobalCalls == 2

\* The registry, the client threads, the spinlock and the graph stay as they
\* are.
GlobalUnchanged ==
    /\ RegistryUnchanged
    /\ UNCHANGED <<manager, search, subs, registry, run, cv>>

\* let manager = GLOBAL_MANAGER.load(Relaxed); a non-null pointer is
\* dereferenced and a clone of the Arc behind it is returned.
get_global_manager_load(t) ==
    /\ global.pc[t] = "idle"
    /\ Len(global.returned[t]) < MaxGlobalCalls
    /\ IF global.ptr # NoThread
       THEN global' = [global EXCEPT !.manager[t] = global.ptr,
                                     !.returned[t] = Append(@, global.ptr)]
       ELSE global' = [global EXCEPT !.manager[t] = global.ptr,
                                     !.pc[t] = "new"]
    /\ GlobalUnchanged

\* let new_manager = Box::into_raw(Box::new(Arc::new(LockManager::new())))
get_global_manager_new(t) ==
    /\ global.pc[t] = "new"
    /\ global' = [global EXCEPT !.new_manager[t] = t,
                                !.live = @ \cup {t},
                                !.pc[t] = "compare_exchange"]
    /\ GlobalUnchanged

\* A compare_exchange whose loser returns the manager it allocated.
get_global_manager_exchange_keeps_own(t) ==
    /\ global.pc[t] = "compare_exchange"
    /\ IF global.ptr = global.manager[t]
       THEN global' = [global EXCEPT !.ptr = global.new_manager[t],
                                     !.returned[t] = Append(@, global.new_manager[t]),
                                     !.new_manager[t] = NoThread,
                                     !.pc[t] = "idle"]
       ELSE global' = [global EXCEPT !.live = @ \ {global.new_manager[t]},
                                     !.freed = @ \cup {global.new_manager[t]},
                                     !.manager[t] = global.ptr,
                                     !.returned[t] = Append(@, global.new_manager[t]),
                                     !.new_manager[t] = NoThread,
                                     !.pc[t] = "idle"]
    /\ GlobalUnchanged

\* GLOBAL_MANAGER.compare_exchange(manager, new_manager): Ok stores the new
\* pointer and returns a clone of the new manager; Err(manager) frees the
\* new manager (Box::from_raw) and returns a clone of the one the pointer
\* names.
get_global_manager_exchange(t) ==
    /\ global.pc[t] = "compare_exchange"
    /\ IF global.ptr = global.manager[t]
       THEN global' = [global EXCEPT !.ptr = global.new_manager[t],
                                     !.returned[t] = Append(@, global.new_manager[t]),
                                     !.new_manager[t] = NoThread,
                                     !.pc[t] = "idle"]
       ELSE global' = [global EXCEPT !.live = @ \ {global.new_manager[t]},
                                     !.freed = @ \cup {global.new_manager[t]},
                                     !.manager[t] = global.ptr,
                                     !.returned[t] = Append(@, global.ptr),
                                     !.new_manager[t] = NoThread,
                                     !.pc[t] = "idle"]
    /\ GlobalUnchanged

GlobalNext ==
    \E t \in Threads :
        \/ get_global_manager_load(t)
        \/ get_global_manager_new(t)
        \/ get_global_manager_exchange(t)

GlobalSpec == MutexInit /\ [][GlobalNext]_vars

\* The handles that calls of get_global_manager have returned so far.
Returned == UNION {Range(global.returned[t]) : t \in Threads}

\* C18: every call of get_global_manager returns a handle to the same
\* manager, which is the one the global pointer names and which is never
\* freed; the pointer is set once and never changes afterwards; a manager
\* allocated by a thread that lost the race is freed and returned by no call.
C18_OneGlobalManager ==
    /\ [](/\ Cardinality(Returned) <= 1
          /\ Returned \subseteq {global.ptr} \ {NoThread}
          /\ Returned \cap global.freed = {}
          /\ global.ptr # NoThread => global.ptr \in global.live)
    /\ [][global.ptr # NoThread => global'.ptr = global.ptr]_vars

\* Two threads raced in their first call: both found the pointer null and
\* allocated, one lost the compare_exchange, freed its manager and returned
\* the winner's, and a later call returned the same manager.
C18_Witness ==
    \E t \in Threads : \E u \in Threads \ {t} :
        /\ global.ptr = u
        /\ t \in global.freed
        /\ global.returned[t] = <<u, u>>
        /\ global.returned[u] = <<u>>


----------------------------------------------------------------------------
\* Graph::find_loop on graphs built with add_edge_and_nodes

GraphNodes == 0..4

\* How many calls of add_edge_and_nodes are made one by one.
MaxEdges == 4

\* The registry, the client threads, the spinlock and the global pointer stay
\* as they are.
GraphUnchanged ==
    /\ RegistryUnchanged
    /\ UNCHANGED <<manager, global, subs, registry, run, cv>>

\* The graph of the test graph_loop_detection before its first find_loop.
TestEdges == <<<<0, 1>>, <<0, 2>>, <<0, 3>>, <<1, 2>>, <<4, 0>>>>

RECURSIVE AddAll(_, _)
AddAll(g, edges) ==
    IF edges = <<>> THEN g
    ELSE AddAll(add_edge_and_nodes(g, Head(edges)[1], Head(edges)[2]), Tail(edges))

TestGraph == AddAll(EmptyMap, TestEdges)

\* graph_loop_detection: the five calls that build the first graph.
graph_loop_detection ==
    /\ search.graph = EmptyMap
    /\ search' = [graph |-> TestGraph, added |-> 0, called |-> FALSE, result |-> <<>>]
    /\ GraphUnchanged

\* graph.add_edge_and_nodes(from, to)
AddEdge(from, to) ==
    /\ search.added < MaxEdges
    /\ search' = [graph |-> add_edge_and_nodes(search.graph, from, to),
                  added |-> search.added + 1,
                  called |-> FALSE,
                  result |-> <<>>]
    /\ GraphUnchanged

\* graph.find_loop(): Some(history) for one of the histories the search can
\* return, None when there is none.
FindLoop ==
    /\ ~search.called
    /\ \E loops \in {find_loop(search.graph)} :
          \E r \in (IF loops = {} THEN {<<>>} ELSE loops) :
              search' = [search EXCEPT !.called = TRUE, !.result = r]
    /\ GraphUnchanged

GraphNext ==
    \/ graph_loop_detection
    \/ \E from \in GraphNodes : \E to \in GraphNodes : AddEdge(from, to)
    \/ FindLoop

GraphSpec == MutexInit /\ [][GraphNext]_vars

\* The nodes that can be reached from the nodes of S by zero or more edges.
RECURSIVE Closure(_, _)
Closure(g, S) ==
    LET next == S \cup UNION {g[n] : n \in S}
    IN  IF next = S THEN S ELSE Closure(g, next)

\* The graph has a directed cycle: some node is reached from itself by one
\* or more edges.
HasCycle(g) == \E n \in DOMAIN g : n \in Closure(g, g[n])

\* c is a directed cycle of g: its nodes are pairwise distinct, every
\* consecutive pair is an edge and so is the pair of the last and the first.
IsCycle(g, c) ==
    /\ c # <<>>
    /\ \A i \in DOMAIN c : \A j \in DOMAIN c : i # j => c[i] # c[j]
    /\ \A i \in 1..(Len(c) - 1) : c[i + 1] \in g[c[i]]
    /\ c[1] \in g[c[Len(c)]]

\* C19: on every graph built with add_edge_and_nodes, find_loop returns None
\* exactly when the graph has no directed cycle, and a returned sequence has
\* pairwise distinct nodes, each consecutive pair an edge and the pair of the
\* last and the first an edge.  On the graph with the edges 0->1, 0->2, 0->3,
\* 1->2, 4->0 it returns None, and with 2->4 added it returns a cycle that
\* contains 0, 2 and 4.
C19_FindLoop ==
    search.called =>
        /\ (search.result = <<>>) <=> ~HasCycle(search.graph)
        /\ search.result # <<>> => IsCycle(search.graph, search.result)
        /\ search.graph = TestGraph => search.result = <<>>
        /\ search.graph = add_edge_and_nodes(TestGraph, 2, 4) =>
               /\ search.result # <<>>
               /\ {0, 2, 4} \subseteq Range(search.result)

\* find_loop was called on the graph of the test with the edge 2->4 added and
\* returned the cycle that goes through node 1 as well.
C19_Witness ==
    /\ search.called
    /\ search.graph = add_edge_and_nodes(TestGraph, 2, 4)
    /\ Len(search.result) = 4


----------------------------------------------------------------------------
\* LockRepresentation::subscribe_write / subscribe_read with the Backtrace
\* of the entries.  An entry of requests is <<RequestType, Backtrace>>; the
\* Backtrace that Backtrace::new_unresolved() captures is named by the site
\* the call comes from.

\* How many capture sites there are.
MaxTraces == 2

Traces == 1..MaxTraces

\* The registry, the client threads, the spinlock, the global pointer and the
\* graph stay as they are.
SubsUnchanged ==
    /\ RegistryUnchanged
    /\ UNCHANGED <<manager, global, search, registry, run, cv>>

subscribe_write_traced(requests, id, trace) ==
    IF id \in DOMAIN requests /\ requests[id][1] = "Write"
    THEN requests
    ELSE MapPut(requests, id, <<"Write", trace>>)

\* A subscribe_read that inserts whatever entry there is.
subscribe_read_traced_inserts(requests, id, trace) ==
    MapPut(requests, id, <<"Read", trace>>)

subscribe_read_traced(requests, id, trace) ==
    IF id \in DOMAIN requests /\ requests[id][1] = "Read"
    THEN requests
    ELSE MapPut(requests, id, <<"Read", trace>>)

\* Thread id calls subscribe_write or subscribe_read from the site trace.
Subscribe(id, type, trace) ==
    /\ subs' = [requests |-> IF type = "Write"
                             THEN subscribe_write_traced(subs.requests, id, trace)
                             ELSE subscribe_read_traced(subs.requests, id, trace),
                before |-> subs.requests,
                called |-> TRUE,
                id |-> id,
                type |-> type,
                trace |-> trace]
    /\ SubsUnchanged

\* Thread id calls unsubscribe.
Unsubscribe(id) ==
    /\ id \in DOMAIN subs.requests
    /\ subs' = [subs EXCEPT !.requests = MapRemove(@, id),
                            !.before = subs.requests,
                            !.called = FALSE]
    /\ SubsUnchanged

SubscribeNext ==
    \E id \in Threads :
        \/ \E type \in Modes : \E trace \in Traces : Subscribe(id, type, trace)
        \/ Unsubscribe(id)

SubscribeSpec == MutexInit /\ [][SubscribeNext]_vars

\* C21: a subscribe call in the mode that the calling thread has pending
\* leaves requests as it was, with the entry and its capture site; a call in
\* the other mode, or with nothing pending, puts the entry of that call in
\* the thread's place; afterwards the thread has an entry of the mode of the
\* call and the entries of the other threads are as they were.
C21_SubscribeIdempotent ==
    subs.called =>
        LET id == subs.id
            pending == id \in DOMAIN subs.before /\ subs.before[id][1] = subs.type
        IN  /\ pending => subs.requests = subs.before
            /\ ~pending => subs.requests[id] = <<subs.type, subs.trace>>
            /\ id \in DOMAIN subs.requests
            /\ subs.requests[id][1] = subs.type
            /\ DOMAIN subs.requests = DOMAIN subs.before \cup {id}
            /\ \A other \in DOMAIN subs.before \ {id} :
                   subs.requests[other] = subs.before[other]

\* A thread subscribed again in the mode it had pending, from another site,
\* while another thread had an entry too.
C21_Witness ==
    /\ subs.called
    /\ subs.id \in DOMAIN subs.before
    /\ subs.before[subs.id][1] = subs.type
    /\ subs.before[subs.id][2] # subs.trace
    /\ DOMAIN subs.before # {subs.id}


----------------------------------------------------------------------------
\* The life of the entries of LockManagerInner.locks: create_lock by
\* Mutex::new / RwLock::new, remove_lock by the Drop of the wrapper and by
\* Mutex::into_inner.

\* How many locks are created at most.
MaxKeys == 4

\* The registry entries of the client threads, the spinlock, the global
\* pointer, the graph and the subscriptions stay as they are.
LifecycleUnchanged ==
    /\ RegistryUnchanged
    /\ UNCHANGED <<manager, global, search, subs, run, cv>>

\* A create_lock that hands out the smallest key that has no entry.
create_lock_reuses(inner) ==
    LET key == CHOOSE k \in 0..inner.next_key :
                   k \notin DOMAIN inner.locks /\ \A j \in 0..(k - 1) : j \in DOMAIN inner.locks
    IN  [key |-> key,
         inner |-> [inner EXCEPT !.next_key = @ + 1,
                                 !.locks = MapPut(@, key, NewRepresentation)]]

\* create_lock: the key is next_key, next_key is incremented and a new
\* LockRepresentation is inserted under the key.
create_lock(inner) ==
    LET key == inner.next_key
    IN  [key |-> key,
         inner |-> [inner EXCEPT !.next_key = @ + 1,
                                 !.locks = MapPut(@, key, NewRepresentation)]]

\* remove_lock: guard.locks.remove(key)
remove_lock(inner, key) == [inner EXCEPT !.locks = MapRemove(@, key)]

\* Mutex::new / RwLock::new (and with_manager): the wrapper keeps the key
\* that create_lock returns.
New ==
    /\ registry.next_key < MaxKeys
    /\ \E made \in {create_lock(registry)} :
          registry' = [made.inner EXCEPT !.alive = @ \cup {made.key},
                                         !.returned = Append(@, made.key),
                                         !.removed = MapPut(@, made.key, 0),
                                         !.op = "create_lock",
                                         !.key = made.key,
                                         !.before = registry.locks]
    /\ LifecycleUnchanged

\* A thread acquires the lock of a live wrapper or releases it: the entry
\* gets or loses a holder record.
Use(key, id) ==
    /\ key \in registry.alive
    /\ key \in DOMAIN registry.locks
    /\ \E rep \in {try_write_lock(registry.locks[key], id).rep,
                   unlock(registry.locks[key], id)} :
          registry' = [registry EXCEPT !.locks[key] = rep,
                                       !.op = "None",
                                       !.key = key,
                                       !.before = registry.locks]
    /\ LifecycleUnchanged

\* Drop for Mutex / Drop for RwLock: self.manager.remove_lock(&self.key).
\* No guard of the wrapper is alive, since a guard borrows it.
Drop(key) ==
    /\ key \in registry.alive
    /\ key \in DOMAIN registry.locks => registry.locks[key].readers = <<>>
    /\ registry' = [remove_lock(registry, key) EXCEPT !.alive = @ \ {key},
                                                      !.removed[key] = @ + 1,
                                                      !.op = "drop",
                                                      !.key = key,
                                                      !.before = registry.locks]
    /\ LifecycleUnchanged

\* Mutex::into_inner: the wrapper is forgotten, so that its Drop does not
\* run, and remove_lock(&key) is called.
into_inner(key) ==
    /\ key \in registry.alive
    /\ key \in DOMAIN registry.locks => registry.locks[key].readers = <<>>
    /\ registry' = [remove_lock(registry, key) EXCEPT !.alive = @ \ {key},
                                                      !.removed[key] = @ + 1,
                                                      !.op = "into_inner",
                                                      !.key = key,
                                                      !.before = registry.locks]
    /\ LifecycleUnchanged

\* remove_lock is called with a key that has no entry.
RemoveMissing(key) ==
    /\ key \notin DOMAIN registry.locks
    /\ registry' = [remove_lock(registry, key) EXCEPT !.op = "remove_lock",
                                                      !.key = key,
                                                      !.before = registry.locks]
    /\ LifecycleUnchanged

LifecycleNext ==
    \/ New
    \/ \E key \in 0..MaxKeys : \E id \in Clients : Use(key, id)
    \/ \E key \in 0..MaxKeys : Drop(key)
    \/ \E key \in 0..MaxKeys : into_inner(key)
    \/ \E key \in 0..MaxKeys : RemoveMissing(key)

LifecycleSpec == MutexInit /\ [][LifecycleNext]_vars

\* C22: locks has an entry for a key exactly while the wrapper created with
\* that key is alive; create_lock returns a key that it never returned
\* before and installs an entry without holder and request, leaving the
\* other entries alone; the wrapper of a key calls remove_lock once, when it
\* is dropped or consumed by into_inner, and that call removes the entry;
\* remove_lock on a key without entry changes nothing.
C22_EntryWhileAlive ==
    /\ DOMAIN registry.locks = registry.alive
    /\ \A i \in DOMAIN registry.returned : \A j \in DOMAIN registry.returned :
           i # j => registry.returned[i] # registry.returned[j]
    /\ registry.op = "create_lock" =>
           /\ registry.key \notin DOMAIN registry.before
           /\ registry.locks[registry.key] = NewRepresentation
           /\ \A k \in DOMAIN registry.before : registry.locks[k] = registry.before[k]
    /\ \A k \in DOMAIN registry.removed :
           registry.removed[k] = IF k \in registry.alive THEN 0 ELSE 1
    /\ registry.op \in {"drop", "into_inner"} =>
           /\ registry.key \in DOMAIN registry.before
           /\ registry.locks = MapRemove(registry.before, registry.key)
    /\ registry.op = "remove_lock" => registry.locks = registry.before

\* A lock is created after an earlier one was removed, while another one is
\* alive and held.
C22_Witness ==
    /\ registry.op = "create_lock"
    /\ \E k \in DOMAIN registry.removed : registry.removed[k] = 1 /\ k < registry.key
    /\ \E k \in DOMAIN registry.before : registry.before[k].readers # <<>>


----------------------------------------------------------------------------
\* The manager's write lock inside the operations: create_lock, remove_lock,
\* the try_* calls, the iterations of the blocking acquisitions and the
\* drops of the guards.  What the operation does to the registry between
\* write_lock and the drop of the LockManagerWriteGuard decides only which
\* way it leaves; every way is allowed here.

Operations == {"create_lock", "remove_lock", "try", "lock", "drop"}

\* The registry, the global pointer, the graph, the subscriptions and the
\* wrappers stay as they are.
RunUnchanged ==
    /\ RegistryUnchanged
    /\ UNCHANGED <<global, search, subs, registry, cv>>

\* The thread calls the operation op.
Call(t, op) ==
    /\ run.pc[t] = "idle"
    /\ run' = [run EXCEPT !.pc[t] = "write_lock", !.op[t] = op]
    /\ UNCHANGED manager
    /\ RunUnchanged

\* let mut guard = self.manager.write_lock(): the compare_exchange_weak(0, -1)
\* that succeeds.
TakeWriteLock(t) ==
    /\ run.pc[t] = "write_lock"
    /\ manager.lock = 0
    /\ manager' = [manager EXCEPT !.lock = -1, !.write_guards[t] = @ + 1]
    /\ run' = [run EXCEPT !.pc[t] = "section"]
    /\ RunUnchanged

\* The operation returns: create_lock, remove_lock, a try_* call and a guard
\* drop at their end, a blocking acquisition when try_*_lock succeeded.  The
\* LockManagerWriteGuard goes out of scope and stores 0.
Return(t) ==
    /\ run.pc[t] = "section"
    /\ manager' = [manager EXCEPT !.lock = 0, !.write_guards[t] = @ - 1]
    /\ run' = [run EXCEPT !.pc[t] = "idle", !.op[t] = "none"]
    /\ RunUnchanged

\* An iteration of a blocking acquisition whose try_*_lock failed, with or
\* without subscribe and an analyse that returned: the thread reaches
\* std::thread::yield_now() at the end of the loop body, where guard is
\* still in scope.
Fail(t) ==
    /\ run.pc[t] = "section"
    /\ run.op[t] = "lock"
    /\ run' = [run EXCEPT !.pc[t] = "yield"]
    /\ UNCHANGED manager
    /\ RunUnchanged

\* yield_now() returns, the loop body ends, guard is dropped and the next
\* iteration begins.
EndIteration(t) ==
    /\ run.pc[t] = "yield"
    /\ manager' = [manager EXCEPT !.lock = 0, !.write_guards[t] = @ - 1]
    /\ run' = [run EXCEPT !.pc[t] = "write_lock"]
    /\ RunUnchanged

\* analyse panics in handle_deadlock.
Panic(t) ==
    /\ run.pc[t] = "section"
    /\ run.op[t] = "lock"
    /\ run' = [run EXCEPT !.pc[t] = "unwinding"]
    /\ UNCHANGED manager
    /\ RunUnchanged

\* Unwinding leaves the frame of the acquisition and drops guard; the thread
\* goes on unwinding and may drop the guards it owns.
Unwind(t) ==
    /\ run.pc[t] = "unwinding"
    /\ manager' = [manager EXCEPT !.lock = 0, !.write_guards[t] = @ - 1]
    /\ run' = [run EXCEPT !.pc[t] = "idle", !.op[t] = "none"]
    /\ RunUnchanged

\* What thread t does once it is inside an operation and has the write lock.
Proceed(t) == Return(t) \/ Fail(t) \/ EndIteration(t) \/ Panic(t) \/ Unwind(t)

RunNext ==
    \E t \in Threads :
        \/ \E op \in Operations : Call(t, op)
        \/ TakeWriteLock(t)
        \/ Proceed(t)

\* The scheduler is fair: a thread that holds the write lock goes on, and a
\* thread that spins in write_lock while the lock is free again and again
\* gets it.
RunSpec ==
    /\ MutexInit
    /\ [][RunNext]_vars
    /\ \A t \in Threads : WF_vars(Proceed(t))
    /\ \A t \in Threads : SF_vars(TakeWriteLock(t))

\* C25: a thread holds the manager's write lock only inside an operation:
\* it has released it when it has returned, when it yields and when it has
\* unwound out of the panic of analyse; and a thread that wants the write
\* lock eventually gets it.
C25_WriteLockReleased ==
    /\ [](\A t \in Threads :
              run.pc[t] \in {"idle", "write_lock", "yield"} => manager.write_guards[t] = 0)
    /\ \A t \in Threads : (run.pc[t] = "write_lock") ~> (run.pc[t] = "section")


----------------------------------------------------------------------------
\* Condvar::wait and notify_one / notify_all.  Thread Waiter waits, thread
\* Notifier changes the data under the application mutex and notifies, the
\* third thread only takes and drops the application mutex.

Waiter == 1

Notifier == 2

\* How many times the notifier notifies at most.
MaxNotifies == 2

\* The registry, the spinlock, the global pointer, the graph, the
\* subscriptions, the wrappers and the operations stay as they are.
CondvarUnchanged ==
    /\ RegistryUnchanged
    /\ UNCHANGED <<manager, global, search, subs, registry, run>>

\* The waiter has released the application mutex inside wait and has not
\* yet been woken.
Released == cv.pc[Waiter] \in {"unlocked", "native", "parked"}

\* mutex.lock() of the application mutex, by the code around the condvar.
cv_lock(t) ==
    /\ cv.pc[t] = "idle"
    /\ cv.owner = NoThread
    /\ t = Notifier => cv.notifies < MaxNotifies
    /\ cv' = [cv EXCEPT !.owner = t,
                        !.pc[t] = "holding",
                        !.after = IF t = Notifier THEN Released ELSE @]
    /\ CondvarUnchanged

\* The guard of the application mutex is dropped; the notifier goes on to
\* notify.
cv_drop(t) ==
    /\ t # Waiter
    /\ cv.pc[t] = "holding"
    /\ cv' = [cv EXCEPT !.owner = NoThread,
                        !.pc[t] = IF t = Notifier THEN "notify" ELSE "idle"]
    /\ CondvarUnchanged

\* wait: let mutex = guard.unlock().  unlock consumes the guard, whose Drop
\* releases the application mutex.
wait_unlock ==
    /\ cv.pc[Waiter] = "holding"
    /\ cv' = [cv EXCEPT !.owner = NoThread, !.pc[Waiter] = "unlocked"]
    /\ CondvarUnchanged

\* wait: self.mutex.lock().unwrap() on the native mutex.
wait_lock_native ==
    /\ cv.pc[Waiter] = "unlocked"
    /\ cv.native = NoThread
    /\ cv' = [cv EXCEPT !.native = Waiter, !.pc[Waiter] = "native"]
    /\ CondvarUnchanged

\* wait: self.condvar.wait(..) releases the native mutex and parks the
\* thread in one step.
wait_park ==
    /\ cv.pc[Waiter] = "native"
    /\ cv' = [cv EXCEPT !.native = NoThread,
                        !.waiting = @ \cup {Waiter},
                        !.pc[Waiter] = "parked"]
    /\ CondvarUnchanged

\* The native wait may return without a notification.
spurious_wakeup ==
    /\ cv.pc[Waiter] = "parked"
    /\ cv' = [cv EXCEPT !.waiting = @ \ {Waiter}, !.pc[Waiter] = "woken"]
    /\ CondvarUnchanged

\* The native wait takes the native mutex again and returns its guard, which
\* is dropped at the end of the statement.
wait_wake ==
    /\ cv.pc[Waiter] = "woken"
    /\ cv.native = NoThread
    /\ cv' = [cv EXCEPT !.pc[Waiter] = "relock"]
    /\ CondvarUnchanged

\* wait: mutex.lock() of the application mutex; wait returns the new guard.
wait_relock ==
    /\ cv.pc[Waiter] = "relock"
    /\ cv.owner = NoThread
    /\ cv' = [cv EXCEPT !.owner = Waiter, !.pc[Waiter] = "returned"]
    /\ CondvarUnchanged

\* The waiter drops the guard that wait returned.
wait_done ==
    /\ cv.pc[Waiter] = "returned"
    /\ cv' = [cv EXCEPT !.owner = NoThread, !.pc[Waiter] = "done"]
    /\ CondvarUnchanged

\* notify_one: the native condvar wakes one parked thread, if there is one.
notify_one ==
    /\ cv.pc[Notifier] = "notify"
    /\ \E woken \in (IF cv.waiting = {} THEN {{}} ELSE {{w} : w \in cv.waiting}) :
          cv' = [cv EXCEPT !.waiting = @ \ woken,
                           !.pc = [t \in Threads |->
                                     IF t \in woken THEN "woken"
                                     ELSE IF t = Notifier THEN "idle" ELSE cv.pc[t]],
                           !.notifies = @ + 1,
                           !.notified = @ \/ cv.after]
    /\ CondvarUnchanged

\* notify_all: the native condvar wakes every parked thread.
notify_all ==
    /\ cv.pc[Notifier] = "notify"
    /\ cv' = [cv EXCEPT !.waiting = {},
                        !.pc = [t \in Threads |->
                                  IF t \in cv.waiting THEN "woken"
                                  ELSE IF t = Notifier THEN "idle" ELSE cv.pc[t]],
                        !.notifies = @ + 1,
                        !.notified = @ \/ cv.after]
    /\ CondvarUnchanged

\* The steps of the waiter that the scheduler owes it.
Wait ==
    \/ wait_unlock
    \/ wait_lock_native
    \/ wait_park
    \/ wait_wake
    \/ wait_done

CondvarNext ==
    \/ \E t \in Threads : cv_lock(t)
    \/ \E t \in Threads : cv_drop(t)
    \/ Wait
    \/ wait_relock
    \/ spurious_wakeup
    \/ notify_one
    \/ notify_all

\* The scheduler is fair to the waiter, and the waiter gets the application
\* mutex if it is free again and again.
CondvarSpec ==
    /\ MutexInit
    /\ [][CondvarNext]_vars
    /\ WF_vars(Wait)
    /\ SF_vars(wait_relock)
    /\ \A t \in Threads \ {Waiter} : WF_vars(cv_drop(t))
    /\ WF_vars(notify_one \/ notify_all)

\* C26: when the notifier has taken the application mutex after the waiter
\* released it inside wait, has released it and has called notify_one or
\* notify_all, the waiter eventually returns from wait with the application
\* mutex.
C26_NoLostNotification ==
    cv.notified ~> (cv.pc[Waiter] \in {"returned", "done"})

====
